---- MODULE Spec2Model ----
(***************************************************************************)
(* Model of the dagrs engine: Dag (src/src/engine/dag.rs) scheduling one   *)
(* concurrent unit per task over ExecState slots (src/src/task/state.rs).  *)
(* The dependency Graph (engine/graph.rs) and the keep-going switch are    *)
(* not part of the sources at hand; they follow spec.md sections 4.3, 4.5. *)
(***************************************************************************)
EXTENDS Integers, Sequences, FiniteSets, TLC

\* ------------------------------------------------------------------ bounds
MaxTasks == 3
MaxPreds == 2
MaxStarts == 2

\* ------------------------------------------------------------ input space
Ids == 1..MaxTasks
Range(s) == {s[i] : i \in 1..Len(s)}
SeqsUpTo(S, n) == UNION {[1..m -> S] : m \in 0..n}
PredLists == SeqsUpTo(Ids, MaxPreds)
TaskSets == {1..n : n \in 0..MaxTasks}
Perms(S) == {s \in [1..Cardinality(S) -> S] : \A i, j \in 1..Cardinality(S) : i # j => s[i] # s[j]}

\* ----------------------------------------------------- Output (state.rs)
NoContent == 0
Out(v) == [tag |-> "Out", val |-> v]
OutputErr == [tag |-> "Err", val |-> NoContent]
OutputErrWithExitCode == [tag |-> "ErrWithExitCode", val |-> NoContent]
OutputEmpty == Out(NoContent)
is_err(o) == o.tag \in {"Err", "ErrWithExitCode"}
get_out(o) == IF o.tag = "Out" THEN o.val ELSE NoContent

\* What Action::run can hand back to execute_task: Ok(out) for every Output
\* variant, Err(err), or a panic that surfaces as a JoinError.
ActionOk(t) == {Out(t), OutputEmpty, OutputErr, OutputErrWithExitCode}
ActionReturns(t) == {[kind |-> "Ok", out |-> o] : o \in ActionOk(t)}
                    \cup {[kind |-> "Err", out |-> OutputEmpty], [kind |-> "Panic", out |-> OutputEmpty]}
NotRun == [kind |-> "NotRun", out |-> OutputEmpty]

\* ---------------------------------------------------------------- state
VARIABLES
    tasks,           \* Dag.tasks: the ids of the task table
    preds,           \* Task::predecessors of each task, in declared order
    keep_going,      \* keep-going policy switch
    can_continue,    \* Dag.can_continue
    exe_sequence,    \* Dag.exe_sequence
    execute_states,  \* Dag.execute_states: id -> [success, output, permits]
    unit,            \* per task: position of its spawned unit
    handles,         \* per task: state of its JoinHandle
    main,            \* position of the caller inside start()/run()/handle_error()
    result,          \* value returned by the latest completed start()
    calls,           \* number of completed start() calls
    invoked,         \* per task: number of Action::run invocations
    writes,          \* per task: number of set_output calls
    returned,        \* per task: what its Action::run handed back
    added            \* per task: permits added to its semaphore, by its own unit / by handle_error

vars == <<tasks, preds, keep_going, can_continue, exe_sequence, execute_states,
          unit, handles, main, result, calls, invoked, writes, returned, added>>

\* ------------------------------------------------------- ExecState (state.rs)
ExecStateNew == [success |-> FALSE, output |-> OutputEmpty, permits |-> 0]

\* variant: the output is dropped, only the flag is set
set_output_dropped(st, o) == [st EXCEPT !.success = TRUE]

set_output(st, o) == [st EXCEPT !.success = TRUE, !.output = o]

get_output(st) == get_out(st.output)

add_permits(st, n) == [st EXCEPT !.permits = @ + n]

\* ----------------------------------------------------------- Graph (spec 4.3)
PredSet(t) == Range(preds[t])

Successors(t) == {s \in tasks : t \in PredSet(s)}

get_node_out_degree(t) == Cardinality(Successors(t))

IndexIn(order, t) == CHOOSE i \in 1..Len(order) : order[i] = t

RECURSIVE Kahn(_, _)
Kahn(seq, order) ==
    LET placed == Range(seq)
        ready == {t \in tasks \ placed : PredSet(t) \subseteq placed}
    IN IF ready = {} THEN seq
       ELSE LET v == CHOOSE x \in ready : \A y \in ready : IndexIn(order, x) <= IndexIn(order, y)
            IN Kahn(Append(seq, v), order)

\* topo_sort: the order, or "absent" (a sequence shorter than the node count)
topo_sort(order) == Kahn(<<>>, order)

\* ------------------------------------------------------------- Dag::init
ResOk(b) == [kind |-> "Ok", ok |-> b, name |-> 0]
ResErr(k, n) == [kind |-> k, ok |-> FALSE, name |-> n]
ResNone == [kind |-> "None", ok |-> FALSE, name |-> 0]

\* find_index_by_id: the node index of an id, 0 when the id has no node
find_index_by_id(order, id) ==
    IF \E i \in 1..Len(order) : order[i] = id THEN IndexIn(order, id) ELSE 0

\* create_graph walks the task table in its iteration order (the order in
\* which the nodes were added) and stops at the first task that names a
\* predecessor without a node.
\* variant: the error names the missing predecessor instead of the task
RelyTaskIllegalOfPred(task, rely_task_id) == ResErr("RelyTaskIllegal", rely_task_id)

RelyTaskIllegal(task, rely_task_id) == ResErr("RelyTaskIllegal", task)

RECURSIVE FormGraph(_, _)
FormGraph(order, i) ==
    IF i > Len(order) THEN ResOk(TRUE)
    ELSE LET task == order[i]
             missing == {j \in 1..Len(preds[task]) : find_index_by_id(order, preds[task][j]) = 0}
         IN IF missing # {}
            THEN RelyTaskIllegal(task, preds[task][CHOOSE j \in missing : \A m \in missing : j <= m])
            ELSE FormGraph(order, i + 1)

create_graph(order) == FormGraph(order, 1)

\* variant: the emptiness test comes before the test for an absent order
init_empty_first(order) ==
    LET g == create_graph(order)
        seq == topo_sort(order)
    IN IF g.kind # "Ok" THEN g
       ELSE IF seq = <<>> THEN ResErr("EmptyJob", 0)
       ELSE IF Len(seq) < Cardinality(tasks) THEN ResErr("LoopGraph", 0)
       ELSE ResOk(TRUE)

\* variant: an empty order is not told apart from a full one
init_no_empty_check(order) ==
    LET g == create_graph(order)
        seq == topo_sort(order)
    IN IF g.kind # "Ok" THEN g
       ELSE IF Len(seq) < Cardinality(tasks) THEN ResErr("LoopGraph", 0)
       ELSE ResOk(TRUE)

init(order) ==
    LET g == create_graph(order)
        seq == topo_sort(order)
    IN IF g.kind # "Ok" THEN g
       ELSE IF Len(seq) < Cardinality(tasks) THEN ResErr("LoopGraph", 0)
       ELSE IF seq = <<>> THEN ResErr("EmptyJob", 0)
       ELSE ResOk(TRUE)

IdleUnit == [pc |-> "none", k |-> 1, inputs |-> <<>>]
MainIdle == [pc |-> "idle", i |-> 1, j |-> 1, exe_success |-> TRUE]

\* ------------------------------------------------------------------ Init
InitCommon ==
    /\ tasks \in TaskSets
    /\ preds \in {p \in [Ids -> PredLists] : \A t \in Ids \ tasks : p[t] = <<>>}
    /\ can_continue = TRUE
    /\ exe_sequence = <<>>
    /\ execute_states = <<>>
    /\ unit = [t \in Ids |-> IdleUnit]
    /\ handles = [t \in Ids |-> "none"]
    /\ main = MainIdle
    /\ result = ResNone
    /\ calls = 0
    /\ invoked = [t \in Ids |-> 0]
    /\ writes = [t \in Ids |-> 0]
    /\ returned = [t \in Ids |-> NotRun]
    /\ added = [t \in Ids |-> [own |-> 0, err |-> 0]]

Init == InitCommon /\ keep_going = FALSE

\* ------------------------------------------------------------ Dag::start
\* variant: start() does not look at the flag
RefusesNever(flag) == FALSE

Refuses(flag) == ~flag

\* variant: the flag is cleared when init fails
StartClearsFlag ==
    /\ main.pc \in {"idle", "returned"}
    /\ calls < MaxStarts
    /\ IF Refuses(can_continue)
       THEN /\ result' = ResOk(FALSE)
            /\ calls' = calls + 1
            /\ main' = [main EXCEPT !.pc = "returned"]
            /\ UNCHANGED <<exe_sequence, execute_states, can_continue>>
       ELSE \E order \in Perms(tasks) :
            LET r == init(order) IN
            /\ execute_states' = [t \in tasks |-> ExecStateNew]
            /\ IF r.kind = "Ok"
               THEN /\ exe_sequence' = topo_sort(order)
                    /\ main' = [pc |-> IF topo_sort(order) = <<>> THEN "end" ELSE "spawn",
                                i |-> 1, j |-> 1, exe_success |-> TRUE]
                    /\ UNCHANGED <<result, calls, can_continue>>
               ELSE /\ result' = r
                    /\ calls' = calls + 1
                    /\ main' = [main EXCEPT !.pc = "returned"]
                    /\ can_continue' = FALSE
                    /\ UNCHANGED exe_sequence
    /\ UNCHANGED <<tasks, preds, keep_going, unit, handles, invoked, writes, returned, added>>

Start ==
    /\ main.pc \in {"idle", "returned"}
    /\ calls < MaxStarts
    /\ IF Refuses(can_continue)
       THEN /\ result' = ResOk(FALSE)
            /\ calls' = calls + 1
            /\ main' = [main EXCEPT !.pc = "returned"]
            /\ UNCHANGED <<exe_sequence, execute_states>>
       ELSE \E order \in Perms(tasks) :
            LET r == init(order) IN
            /\ execute_states' = [t \in tasks |-> ExecStateNew]
            /\ IF r.kind = "Ok"
               THEN /\ exe_sequence' = topo_sort(order)
                    /\ main' = [pc |-> IF topo_sort(order) = <<>> THEN "end" ELSE "spawn",
                                i |-> 1, j |-> 1, exe_success |-> TRUE]
                    /\ UNCHANGED <<result, calls>>
               ELSE /\ result' = r
                    /\ calls' = calls + 1
                    /\ main' = [main EXCEPT !.pc = "returned"]
                    /\ UNCHANGED exe_sequence
    /\ UNCHANGED <<tasks, preds, keep_going, can_continue, unit, handles, invoked, writes, returned, added>>

\* ------------------------------------------------- Dag::run, spawning loop
\* variant: the units are spawned from the end of the sequence
SpawnBackwards ==
    /\ main.pc = "spawn"
    /\ LET t == exe_sequence[Len(exe_sequence) + 1 - main.i] IN
       /\ unit' = [unit EXCEPT ![t] = [pc |-> IF preds[t] = <<>> THEN "invoke" ELSE "acquire",
                                       k |-> 1, inputs |-> <<>>]]
       /\ handles' = [handles EXCEPT ![t] = "pending"]
    /\ main' = IF main.i = Len(exe_sequence)
               THEN [main EXCEPT !.pc = "join", !.i = 1]
               ELSE [main EXCEPT !.i = @ + 1]
    /\ UNCHANGED <<tasks, preds, keep_going, can_continue, exe_sequence, execute_states,
                   result, calls, invoked, writes, returned, added>>

Spawn ==
    /\ main.pc = "spawn"
    /\ LET t == exe_sequence[main.i] IN
       /\ unit' = [unit EXCEPT ![t] = [pc |-> IF preds[t] = <<>> THEN "invoke" ELSE "acquire",
                                       k |-> 1, inputs |-> <<>>]]
       /\ handles' = [handles EXCEPT ![t] = "pending"]
    /\ main' = IF main.i = Len(exe_sequence)
               THEN [main EXCEPT !.pc = "join", !.i = 1]
               ELSE [main EXCEPT !.i = @ + 1]
    /\ UNCHANGED <<tasks, preds, keep_going, can_continue, exe_sequence, execute_states,
                   result, calls, invoked, writes, returned, added>>

\* ------------------------------------------- Dag::execute_task, the unit
\* keep-going: a unit goes on whatever the flag says (spec 4.5, Execution)
ContinueSeen == can_continue \/ keep_going

\* variant: the unit never looks at the flag
CancelledNever(flag) == FALSE

Cancelled(flag) == ~flag

\* variant: a cancelled unit reports failure
CancelledReturnFalse == "false"

\* what a unit that found the flag cleared hands to its JoinHandle
CancelledReturn == "true"

\* variant: the permit goes back to the semaphore when the wait is over
UnitAcquireReturned(t) ==
    /\ unit[t].pc = "acquire"
    /\ execute_states[preds[t][unit[t].k]].permits > 0
    /\ unit' = [unit EXCEPT ![t].pc = "check"]
    /\ UNCHANGED <<tasks, preds, keep_going, can_continue, exe_sequence, execute_states, handles,
                   main, result, calls, invoked, writes, returned, added>>

UnitAcquire(t) ==
    /\ unit[t].pc = "acquire"
    /\ LET p == preds[t][unit[t].k] IN
       /\ execute_states[p].permits > 0
       /\ execute_states' = [execute_states EXCEPT ![p].permits = @ - 1]
    /\ unit' = [unit EXCEPT ![t].pc = "check"]
    /\ UNCHANGED <<tasks, preds, keep_going, can_continue, exe_sequence, handles, main,
                   result, calls, invoked, writes, returned, added>>

UnitCheck(t) ==
    /\ unit[t].pc = "check"
    /\ IF Cancelled(ContinueSeen)
       THEN /\ unit' = [unit EXCEPT ![t].pc = "done"]
            /\ handles' = [handles EXCEPT ![t] = CancelledReturn]
       ELSE /\ unit' = [unit EXCEPT ![t].pc = "read"]
            /\ UNCHANGED handles
    /\ UNCHANGED <<tasks, preds, keep_going, can_continue, exe_sequence, execute_states, main,
                   result, calls, invoked, writes, returned, added>>

\* variant: the newest content goes to the front
PushInputFront(inputs, content) == IF content # NoContent THEN <<content>> \o inputs ELSE inputs

\* variant: an empty content is pushed as well
PushInputAlways(inputs, content) == Append(inputs, content)

PushInput(inputs, content) == IF content # NoContent THEN Append(inputs, content) ELSE inputs

UnitRead(t) ==
    /\ unit[t].pc = "read"
    /\ LET p == preds[t][unit[t].k]
           more == unit[t].k < Len(preds[t])
       IN unit' = [unit EXCEPT ![t] = [pc |-> IF more THEN "acquire" ELSE "invoke",
                                       k |-> IF more THEN unit[t].k + 1 ELSE unit[t].k,
                                       inputs |-> PushInput(unit[t].inputs, get_output(execute_states[p]))]]
    /\ UNCHANGED <<tasks, preds, keep_going, can_continue, exe_sequence, execute_states, handles,
                   main, result, calls, invoked, writes, returned, added>>

UnitInvoke(t) ==
    /\ unit[t].pc = "invoke"
    /\ unit' = [unit EXCEPT ![t].pc = "running"]
    /\ invoked' = [invoked EXCEPT ![t] = @ + 1]
    /\ UNCHANGED <<tasks, preds, keep_going, can_continue, exe_sequence, execute_states, handles,
                   main, result, calls, writes, returned, added>>

\* variant: the Ok arm adds the permits where it should store the output
UnitReturnPermitsFirst(t) ==
    /\ unit[t].pc = "running"
    /\ \E r \in ActionReturns(t) :
       /\ returned' = [returned EXCEPT ![t] = r]
       /\ IF r.kind = "Ok"
          THEN /\ execute_states' = [execute_states EXCEPT ![t] = add_permits(@, get_node_out_degree(t))]
               /\ added' = [added EXCEPT ![t].own = @ + get_node_out_degree(t)]
               /\ unit' = [unit EXCEPT ![t].pc = "release"]
               /\ UNCHANGED <<handles, writes>>
          ELSE /\ unit' = [unit EXCEPT ![t].pc = "done"]
               /\ handles' = [handles EXCEPT ![t] = IF r.kind = "Err" THEN "false" ELSE "panic"]
               /\ UNCHANGED <<execute_states, writes, added>>
    /\ UNCHANGED <<tasks, preds, keep_going, can_continue, exe_sequence, main, result, calls,
                   invoked>>

\* The match on action.run(..): Ok(out) stores the output, Err(err) and a
\* panic end the unit without touching its ExecState.
UnitReturn(t) ==
    /\ unit[t].pc = "running"
    /\ \E r \in ActionReturns(t) :
       /\ returned' = [returned EXCEPT ![t] = r]
       /\ IF r.kind = "Ok"
          THEN /\ execute_states' = [execute_states EXCEPT ![t] = set_output(@, r.out)]
               /\ writes' = [writes EXCEPT ![t] = @ + 1]
               /\ unit' = [unit EXCEPT ![t].pc = "release"]
               /\ UNCHANGED handles
          ELSE /\ unit' = [unit EXCEPT ![t].pc = "done"]
               /\ handles' = [handles EXCEPT ![t] = IF r.kind = "Err" THEN "false" ELSE "panic"]
               /\ UNCHANGED <<execute_states, writes>>
    /\ UNCHANGED <<tasks, preds, keep_going, can_continue, exe_sequence, main, result, calls,
                   invoked, added>>

UnitRelease(t) ==
    /\ unit[t].pc = "release"
    /\ execute_states' = [execute_states EXCEPT ![t] = add_permits(@, get_node_out_degree(t))]
    /\ added' = [added EXCEPT ![t].own = @ + get_node_out_degree(t)]
    /\ unit' = [unit EXCEPT ![t].pc = "done"]
    /\ handles' = [handles EXCEPT ![t] = "true"]
    /\ UNCHANGED <<tasks, preds, keep_going, can_continue, exe_sequence, main, result, calls,
                   invoked, writes, returned>>

\* --------------------------------------------------- Dag::run, join loop
Complete(h) == h = "true"

Join ==
    /\ main.pc = "join"
    /\ LET h == handles[exe_sequence[main.i]] IN
       /\ h \notin {"none", "pending"}
       /\ main' = IF Complete(h)
                  THEN IF main.i = Len(exe_sequence)
                       THEN [main EXCEPT !.pc = "end"]
                       ELSE [main EXCEPT !.i = @ + 1]
                  ELSE [main EXCEPT !.pc = "handle_error"]
    /\ UNCHANGED <<tasks, preds, keep_going, can_continue, exe_sequence, execute_states, unit,
                   handles, result, calls, invoked, writes, returned, added>>

\* ------------------------------------------------------ Dag::handle_error
\* keep-going: a task failure does not flip the flag (spec 4.5, Keep-going mode)
FailureFlipsFlag == ~keep_going

\* variant: the release loop starts at the head of the sequence
HandleErrorStoreFromStart ==
    /\ main.pc = "handle_error"
    /\ can_continue' = IF FailureFlipsFlag THEN FALSE ELSE can_continue
    /\ main' = [main EXCEPT !.pc = "release", !.j = 1]
    /\ UNCHANGED <<tasks, preds, keep_going, exe_sequence, execute_states, unit, handles,
                   result, calls, invoked, writes, returned, added>>

\* variant: the store of false is left out
HandleErrorStoreOmitted ==
    /\ main.pc = "handle_error"
    /\ main' = [main EXCEPT !.pc = "release", !.j = main.i]
    /\ UNCHANGED <<tasks, preds, keep_going, can_continue, exe_sequence, execute_states, unit,
                   handles, result, calls, invoked, writes, returned, added>>

HandleErrorStore ==
    /\ main.pc = "handle_error"
    /\ can_continue' = IF FailureFlipsFlag THEN FALSE ELSE can_continue
    /\ main' = [main EXCEPT !.pc = "release", !.j = main.i]
    /\ UNCHANGED <<tasks, preds, keep_going, exe_sequence, execute_states, unit, handles,
                   result, calls, invoked, writes, returned, added>>

HandleErrorRelease ==
    /\ main.pc = "release"
    /\ LET tid == exe_sequence[main.j] IN
       /\ execute_states' = [execute_states EXCEPT ![tid] = add_permits(@, get_node_out_degree(tid))]
       /\ added' = [added EXCEPT ![tid].err = @ + get_node_out_degree(tid)]
    /\ main' = IF main.j < Len(exe_sequence)
               THEN [main EXCEPT !.j = @ + 1]
               ELSE IF main.i = Len(exe_sequence)
                    THEN [main EXCEPT !.pc = "end", !.exe_success = FALSE]
                    ELSE [main EXCEPT !.pc = "join", !.i = @ + 1, !.exe_success = FALSE]
    /\ UNCHANGED <<tasks, preds, keep_going, can_continue, exe_sequence, unit, handles,
                   result, calls, invoked, writes, returned>>

\* ------------------------------------------------------ Dag::run, the end
Finish ==
    /\ main.pc = "end"
    /\ can_continue' = FALSE
    /\ result' = ResOk(main.exe_success)
    /\ calls' = calls + 1
    /\ main' = [main EXCEPT !.pc = "returned"]
    /\ UNCHANGED <<tasks, preds, keep_going, exe_sequence, execute_states, unit, handles,
                   invoked, writes, returned, added>>

\* ------------------------------------------------------ Dag::get_result
\* variant: the head of the sequence is read
get_result_first ==
    IF exe_sequence = <<>> THEN NoContent
    ELSE get_output(execute_states[exe_sequence[1]])

\* The content of the last task of the sequence, NoContent for None.
get_result ==
    IF exe_sequence = <<>> THEN NoContent
    ELSE get_output(execute_states[exe_sequence[Len(exe_sequence)]])

UnitStep(t) == UnitAcquire(t) \/ UnitCheck(t) \/ UnitRead(t) \/ UnitInvoke(t)
               \/ UnitReturn(t) \/ UnitRelease(t)

Next ==
    \/ Start
    \/ Spawn
    \/ \E t \in Ids : UnitAcquire(t)
    \/ \E t \in Ids : UnitCheck(t)
    \/ \E t \in Ids : UnitRead(t)
    \/ \E t \in Ids : UnitInvoke(t)
    \/ \E t \in Ids : UnitReturn(t)
    \/ \E t \in Ids : UnitRelease(t)
    \/ Join
    \/ HandleErrorStore
    \/ HandleErrorRelease
    \/ Finish

Spec == Init /\ [][Next]_vars

\* The same engine configured with keep_going().
InitKeepGoing == InitCommon /\ keep_going = TRUE

SpecKeepGoing == InitKeepGoing /\ [][Next]_vars

\* The runtime polls every runnable unit and the caller's future again and again.
Fairness == /\ WF_vars(Start) /\ WF_vars(Spawn) /\ WF_vars(Join) /\ WF_vars(HandleErrorStore)
            /\ WF_vars(HandleErrorRelease) /\ WF_vars(Finish)
            /\ \A t \in Ids : WF_vars(UnitStep(t))

FairSpec == Spec /\ Fairness

\* ====================================================================
\* Vocabulary of the properties
\* ====================================================================
\* get_results: one entry per task, the content of a Produced(some) output
get_results(t) == get_output(execute_states[t])

RECURSIVE Closure(_)
Closure(S) ==
    LET N == S \cup UNION {Successors(x) : x \in S}
    IN IF N = S THEN S ELSE Closure(N)

\* transitive successors of f
Descendants(f) == Closure(Successors(f))

HasCycle == \E t \in tasks : t \in Descendants(t)

ReturnedProduced(t) == returned[t].kind = "Ok" /\ returned[t].out.tag = "Out"

\* the task's action reported an error or its unit ended by a panic
ActionFailed(t) ==
    \/ returned[t].kind \in {"Err", "Panic"}
    \/ returned[t].kind = "Ok" /\ is_err(returned[t].out)

FailedTasks == {t \in tasks : ActionFailed(t)}

DependsOnFailed(t) == \E f \in FailedTasks : t \in Descendants(f)

\* the first start() of a task set that passed initialization has returned
RunReturned == main.pc = "returned" /\ result.kind = "Ok" /\ exe_sequence # <<>>

\* the unit of s is past its wait and flag check for the j-th declared predecessor
PastWait(s, j) ==
    \/ invoked[s] > 0
    \/ unit[s].pc = "invoke"
    \/ unit[s].pc # "none" /\ j < unit[s].k
    \/ unit[s].pc = "read" /\ j = unit[s].k

\* ====================================================================
\* C1. For every edge (p, s): once the unit of s has passed the wait on p
\* with the flag still set (it reads p's output, or its action has been
\* invoked), set_output of p has already returned.
C1_OutputBeforeSuccessor ==
    \A s \in tasks : \A j \in 1..Len(preds[s]) :
        PastWait(s, j) => writes[preds[s][j]] > 0

\* a successor is running its action while the engine has already seen a failure
C1_Witness ==
    \E s \in tasks : preds[s] # <<>> /\ unit[s].pc = "running" /\ ~can_continue

\* C2. Once start() has passed initialization it eventually returns, under
\* fair scheduling of the units and of the caller.
C2_StartReturns == (main.pc = "spawn") ~> (main.pc = "returned")

\* C3. When start() returns Ok(b) from a run, b is true exactly if every
\* task's action was invoked and returned Produced.
C3_TrueIffAllProduced ==
    (RunReturned /\ calls = 1) =>
        (result.ok <=> \A t \in tasks : invoked[t] > 0 /\ ReturnedProduced(t))

\* C4. Fail-fast: after start() has returned, no transitive successor of a
\* failed task holds a Produced(some value) output.
C4_NoDescendantValue ==
    (RunReturned /\ ~keep_going) =>
        \A f \in FailedTasks : \A d \in Descendants(f) : get_results(d) = NoContent

\* C5 as stated. After any completed start(), the second start() returns
\* Ok(false) and invokes no action.
C5_SecondStartRefused ==
    [][calls >= 1 => (invoked' = invoked /\ (calls' # calls => result' = ResOk(FALSE)))]_vars

\* C5 amended. After a start() that passed initialization and returned Ok,
\* the second start() returns Ok(false) and invokes no action.
C5_SecondStartAfterRun ==
    [][(calls >= 1 /\ result.kind = "Ok") =>
          (invoked' = invoked /\ (calls' # calls => result' = ResOk(FALSE)))]_vars

\* the second start() of an engine whose tasks have run has returned
C5_Witness ==
    calls = 2 /\ main.pc = "returned" /\ result = ResOk(FALSE) /\ \E t \in tasks : invoked[t] = 1

C7_KeepGoingProducedIff ==
    (RunReturned /\ keep_going) =>
        \A t \in tasks : ~DependsOnFailed(t) =>
            /\ invoked[t] > 0
            /\ execute_states[t].output.tag = "Out" <=> ReturnedProduced(t)

C9_CycleGivesLoopGraph ==
    (calls >= 1 /\ HasCycle /\ \A t \in tasks : PredSet(t) \subseteq tasks) =>
        /\ result = ResErr("LoopGraph", 0)
        /\ \A t \in Ids : invoked[t] = 0 /\ unit[t].pc = "none"

C9_Witness ==
    /\ calls >= 1 /\ result.kind = "LoopGraph"
    /\ \E t \in tasks : t \in PredSet(t)

\* C10. Some task lists a predecessor id that is no task of the set: start()
\* returns Err(RelyTaskIllegal(name)) for a task that lists such an id, and
\* no action is invoked.
C10_AbsentPredecessor ==
    (calls >= 1 /\ \E t \in tasks : ~(PredSet(t) \subseteq tasks)) =>
        /\ result.kind = "RelyTaskIllegal"
        /\ result.name \in tasks /\ ~(PredSet(result.name) \subseteq tasks)
        /\ \A t \in Ids : invoked[t] = 0 /\ unit[t].pc = "none"

C10_Witness ==
    /\ calls >= 1 /\ result.kind = "RelyTaskIllegal"
    /\ Cardinality({t \in tasks : ~(PredSet(t) \subseteq tasks)}) >= 2

\* ====================================================================
\* C11. For the empty task set, start() returns Err(EmptyJob) and runs
\* nothing: no unit is spawned, no action is invoked, the sequence stays
\* empty and the flag stays true, so the Dag is not in its terminal state.
\* ====================================================================
C11_EmptyJob ==
    (tasks = {} /\ calls > 0) =>
        /\ result = ResErr("EmptyJob", 0)
        /\ can_continue
        /\ exe_sequence = <<>>
        /\ main.pc = "returned"
        /\ \A t \in Ids : handles[t] = "none" /\ invoked[t] = 0

C11_Witness == tasks = {} /\ calls = MaxStarts /\ result.kind = "EmptyJob"

\* ====================================================================
\* C12. The Input handed to the action of t holds one entry per entry of
\* t's declared predecessor list whose stored output is Out(Some v), the
\* entry being v as the predecessor's action returned it, in the declared
\* order; a predecessor that stored Out(None) or an error output adds
\* nothing.
\* ====================================================================
RECURSIVE StoredInputs(_, _)
StoredInputs(t, j) ==
    IF j = 0 THEN <<>>
    ELSE LET o == execute_states[preds[t][j]].output
         IN IF o.tag = "Out" /\ o.val # NoContent
            THEN Append(StoredInputs(t, j - 1), o.val)
            ELSE StoredInputs(t, j - 1)

C12_WitnessLeftOut ==
    \E t \in tasks :
        /\ invoked[t] > 0
        /\ Len(preds[t]) = 2
        /\ unit[t].inputs = <<preds[t][2]>>
        /\ writes[preds[t][1]] = 1

\* ====================================================================
\* C13. Fail-fast: a unit that finds the flag false right after it took a
\* predecessor's permit ends with true, its action not invoked and its
\* output not written; its stored output stays Out(None) from then on and
\* the join loop does not call handle_error for it.
\* ====================================================================
\* the unit of t ended without ever invoking its action
CancelledUnit(t) == unit[t].pc = "done" /\ invoked[t] = 0

C14_GetResultOfLast ==
    IF exe_sequence = <<>>
    THEN get_result = NoContent
    ELSE LET l == exe_sequence[Len(exe_sequence)] IN
         /\ get_result = IF returned[l].kind = "Ok" THEN get_out(returned[l].out) ELSE NoContent
         /\ get_result \in {NoContent, l}

C14_Witness ==
    /\ RunReturned
    /\ Len(exe_sequence) > 1
    /\ get_result = exe_sequence[Len(exe_sequence)]
    /\ get_results(exe_sequence[1]) = exe_sequence[1]

C14_WitnessAbsent ==
    /\ RunReturned
    /\ get_result = NoContent
    /\ invoked[exe_sequence[Len(exe_sequence)]] = 0
    /\ get_results(exe_sequence[1]) = exe_sequence[1]

\* ====================================================================
\* C15. As stated: in every ExecState the output slot is written at most
\* once, no permit is added to its semaphore (by the task's own unit or
\* by handle_error) before the slot has been written, and once a permit
\* has been added the slot is not written again.
\* ====================================================================
PermitsAdded(t) == added[t].own + added[t].err

C15_WrittenBeforeAnyPermit ==
    [][\A t \in tasks :
        /\ writes'[t] <= 1
        /\ PermitsAdded(t)' > 0 => writes'[t] = 1
        /\ PermitsAdded(t) > 0 => writes'[t] = writes[t]
      ]_vars

\* C15, amended: the slot is written at most once; the task's own unit
\* adds its out-degree permits only after it wrote the slot and does not
\* write it afterwards; handle_error adds permits only after the flag was
\* stored false, also to slots not written, and only by permits of
\* handle_error can a slot be written after a permit was added.
C15_WrittenBeforeOwnPermits ==
    [][\A t \in tasks :
        /\ writes'[t] <= 1
        /\ added'[t].own > 0 => writes'[t] = 1 /\ added'[t].own = get_node_out_degree(t)
        /\ added[t].own > 0 => writes'[t] = writes[t]
        /\ added'[t].err > 0 => ~can_continue'
        /\ (PermitsAdded(t) > 0 /\ writes'[t] # writes[t]) => added[t].err > 0 /\ added[t].own = 0
      ]_vars

\* handle_error's permits are in the semaphore of a task whose action is
\* still running, its slot not written yet
C15_Witness ==
    \E t \in tasks :
        /\ added[t].err > 0
        /\ writes[t] = 0
        /\ unit[t].pc = "running"

\* ====================================================================
\* C16. A task without predecessors never looks at the flag: once start()
\* is past init, the action of every such task is eventually invoked and
\* its output stored, whatever other tasks do and whenever handle_error
\* stores continue=false.
\* ====================================================================
Roots == {t \in tasks : preds[t] = <<>>}

NeverChecksFlag(t) == unit[t].pc \notin {"acquire", "check", "read"}

C16_RootsRunAndStore ==
    /\ [](\A t \in Roots : NeverChecksFlag(t))
    /\ (main.pc = "spawn") ~> (\A t \in Roots : invoked[t] = 1 /\ writes[t] = 1)

\* the part that holds: every such task is invoked, and what its action
\* returns through Ok is stored
C16_RootsRun ==
    /\ [](\A t \in Roots : NeverChecksFlag(t))
    /\ (main.pc = "spawn") ~>
          (\A t \in Roots : /\ invoked[t] = 1
                            /\ returned[t] # NotRun
                            /\ returned[t].kind = "Ok" =>
                                  writes[t] = 1 /\ execute_states[t].output = returned[t].out)

\* ====================================================================
\* C17. Keep-going: a task failure does not store continue=false, so the
\* flag is true for the whole run; a task whose predecessors failed still
\* has its action invoked, and its Input has no entry for a failed
\* predecessor (none at all when every predecessor failed).
\* ====================================================================
\* entries of t's predecessor list that name a task that did not fail
SoundEntries(t) == {j \in 1..Len(preds[t]) : preds[t][j] \notin FailedTasks}

FailedAt(p) == handles[exe_sequence[p]] \in {"false", "panic"}

\* positions the join loop is through with
JoinedUpTo ==
    IF main.pc \in {"end", "returned"} THEN Len(exe_sequence)
    ELSE IF main.pc \in {"join", "handle_error", "release"} THEN main.i - 1
    ELSE 0

\* calls of handle_error that have added their permits to position q
ReleasesAt(q) ==
    Cardinality({p \in 1..JoinedUpTo : p <= q /\ FailedAt(p)})
    + (IF main.pc = "release" /\ main.i <= q /\ q < main.j THEN 1 ELSE 0)

HandleErrorPermits ==
    /\ main.pc = "release" => ~can_continue
    /\ \A q \in 1..Len(exe_sequence) :
          LET t == exe_sequence[q] IN
          /\ added[t].err = get_node_out_degree(t) * ReleasesAt(q)
          /\ added[t].err > 0 => ~can_continue

C18_HandleError ==
    [][/\ HandleErrorPermits'
       /\ (main.pc \in {"handle_error", "release"} /\ main' # main) =>
             /\ writes' = writes
             /\ \A t \in tasks :
                   /\ execute_states'[t].output = execute_states[t].output
                   /\ execute_states'[t].success = execute_states[t].success
       /\ (main.pc = "handle_error" /\ main' # main) =>
             ~can_continue' /\ execute_states' = execute_states
      ]_vars

\* the second task of the sequence failed: the first, which has
\* successors, got no permit from handle_error, the failed one did
C18_Witness ==
    /\ ~keep_going
    /\ main.pc = "returned"
    /\ Len(exe_sequence) > 1
    /\ FailedAt(2)
    /\ get_node_out_degree(exe_sequence[1]) > 0
    /\ added[exe_sequence[1]].err = 0
    /\ added[exe_sequence[2]].err > 0

\* ====================================================================
\* C19. A fresh ExecState has success = false, output Out(None) and no
\* permits; set_output(out) stores out and leaves success true when out
\* is an Out, false when it is Err or ErrWithExitCode.
\* ====================================================================
C19_SetOutputSuccess ==
    \A t \in DOMAIN execute_states :
        LET st == execute_states[t] IN
        IF writes[t] = 0
        THEN /\ st.success = FALSE
             /\ st.output = OutputEmpty
             /\ PermitsAdded(t) = 0 => st.permits = 0
        ELSE /\ st.output = returned[t].out
             /\ st.success = ~is_err(st.output)

\* ====================================================================
\* C20. When init succeeds, the execution sequence holds every task id
\* once and is a topological order: a predecessor stands before each of
\* its successors. The units are spawned in that order and joined in that
\* order.
\* ====================================================================
Position(t) == CHOOSE q \in 1..Len(exe_sequence) : exe_sequence[q] = t

Spawned == {t \in tasks : handles[t] # "none"}

Joined == {t \in tasks : \E q \in 1..JoinedUpTo : exe_sequence[q] = t}

C20_TopologicalOrder ==
    exe_sequence # <<>> =>
        /\ Len(exe_sequence) = Cardinality(tasks)
        /\ Range(exe_sequence) = tasks
        /\ \A s \in tasks : \A p \in PredSet(s) : Position(p) < Position(s)
        /\ main.pc = "spawn" => Spawned = {exe_sequence[q] : q \in 1..(main.i - 1)}
        /\ main.pc # "spawn" => Spawned = tasks
        /\ \A t \in Joined : unit[t].pc = "done"

\* an order the edges force against the order of the ids
C20_Witness ==
    /\ main.pc = "join"
    /\ main.i = 3
    /\ Len(exe_sequence) = 3
    /\ exe_sequence[1] > exe_sequence[3]
    /\ exe_sequence[1] \in PredSet(exe_sequence[2])
    /\ exe_sequence[2] \in PredSet(exe_sequence[3])

\* ====================================================================
\* C21. Fail-fast: every permit of handle_error is added with the flag
\* already stored false, so a unit whose wait on a predecessor is
\* satisfied once handle_error has added permits to that predecessor's
\* state finds the flag false at the check that follows, ends there and
\* never invokes its action.
\* ====================================================================
\* the state the unit of t has just taken a permit from
WaitedOn(t) == preds[t][unit[t].k]

C21_HandleErrorPermitCancels ==
    [][/\ \A q \in tasks : added'[q].err > added[q].err => ~can_continue
       /\ \A t \in tasks :
             (unit[t].pc = "check" /\ added[WaitedOn(t)].err > 0) =>
                 /\ ~can_continue
                 /\ unit'[t] # unit[t] =>
                       /\ unit'[t].pc = "done"
                       /\ handles'[t] = "true"
                       /\ invoked'[t] = 0
                       /\ writes'[t] = 0
      ]_vars

\* the only permits the predecessor's state ever got are handle_error's
C21_Witness ==
    \E t \in tasks :
        /\ ~keep_going
        /\ CancelledUnit(t)
        /\ added[WaitedOn(t)].own = 0
        /\ added[WaitedOn(t)].err > 0

\* ====================================================================
\* C22. handle_error for the failed task at position i of the sequence is
\* called only after the units at all positions before i have finished;
\* so every unit that ends through the cancellation short-circuit stands
\* after some failed task, and no unit is left waiting on a state that
\* stands before the first failure.
\* ====================================================================
SomeFailure == \E q \in 1..Len(exe_sequence) : FailedAt(q)

FirstFailure == CHOOSE q \in 1..Len(exe_sequence) : FailedAt(q) /\ \A r \in 1..(q - 1) : ~FailedAt(r)

\* handle_error runs for a failed unit, all units before it have finished
JoinedInOrder ==
    main.pc \in {"handle_error", "release"} =>
        /\ FailedAt(main.i)
        /\ \A q \in 1..(main.i - 1) : unit[exe_sequence[q]].pc = "done"

CancelledAfterFailure ==
    \A t \in tasks :
        (~keep_going /\ CancelledUnit(t)) =>
            \E q \in 1..Len(exe_sequence) : FailedAt(q) /\ q < Position(t)

\* the unit of t waits for a permit of a state that stands before the first failure
LeftWaiting(t) ==
    /\ unit[t].pc = "acquire"
    /\ SomeFailure
    /\ Position(WaitedOn(t)) < FirstFailure

C22_NoUnitLeftWaiting ==
    /\ [](JoinedInOrder /\ CancelledAfterFailure)
    /\ \A t \in Ids : LeftWaiting(t) ~> ~LeftWaiting(t)

\* the parts about the order of handle_error and of cancelled units
C22_Order == JoinedInOrder /\ CancelledAfterFailure

\* ====================================================================
\* C23. Permit accounting: the permits acquired from a state never exceed
\* the permits added to it, and the difference is what the semaphore
\* holds; a unit takes one permit for each entry of its predecessor list
\* it has waited on, all of them before its action is invoked, and gives
\* none back; when a run in which no unit failed returns, each state got
\* its out-degree in permits once, all of them were acquired, and every
\* semaphore holds 0 permits.
\* ====================================================================
\* entries of t's predecessor list whose wait the unit of t is through with
TakenEntries(t) ==
    IF unit[t].pc = "none" \/ preds[t] = <<>> THEN {}
    ELSE IF unit[t].pc = "acquire" THEN 1..(unit[t].k - 1)
    ELSE 1..unit[t].k

RECURSIVE SumOver(_, _)
SumOver(S, f) ==
    IF S = {} THEN 0
    ELSE LET x == CHOOSE y \in S : TRUE IN f[x] + SumOver(S \ {x}, f)

\* permits the units have taken from the state of p
Acquired(p) ==
    SumOver(tasks, [t \in tasks |-> Cardinality({j \in TakenEntries(t) : preds[t][j] = p})])

C23_PermitAccounting ==
    /\ \A p \in DOMAIN execute_states :
          /\ Acquired(p) <= PermitsAdded(p)
          /\ execute_states[p].permits = PermitsAdded(p) - Acquired(p)
    /\ \A t \in tasks :
          (unit[t].pc = "invoke" \/ invoked[t] > 0) => TakenEntries(t) = 1..Len(preds[t])
    /\ (RunReturned /\ ~SomeFailure) =>
          \A p \in tasks :
              /\ added[p] = [own |-> get_node_out_degree(p), err |-> 0]
              /\ Acquired(p) = get_node_out_degree(p)
              /\ execute_states[p].permits = 0

C23_Witness ==
    /\ RunReturned
    /\ ~SomeFailure
    /\ \E p \in tasks : get_node_out_degree(p) = 2 /\ Acquired(p) = 2

\* ====================================================================
\* C24. When start() returns Err (RelyTaskIllegal, LoopGraph, EmptyJob),
\* no unit has been spawned, no action has been invoked and the flag is
\* still true; the flag is stored false only by handle_error or at the
\* end of run, and once false it is never true again.
\* ====================================================================
StartReturnedErr ==
    main.pc = "returned" /\ result.kind \in {"RelyTaskIllegal", "LoopGraph", "EmptyJob"}

C24_ErrLeavesFlag ==
    [][/\ StartReturnedErr' =>
             /\ can_continue'
             /\ exe_sequence' = <<>>
             /\ \A t \in Ids : handles'[t] = "none" /\ unit'[t].pc = "none" /\ invoked'[t] = 0
       /\ (can_continue /\ ~can_continue') =>
             /\ main.pc \in {"handle_error", "end"}
             /\ main'.pc \in {"release", "returned"}
       /\ ~can_continue => ~can_continue'
      ]_vars

\* the second start() of a task set with an absent predecessor has returned
C24_Witness ==
    /\ StartReturnedErr
    /\ calls = MaxStarts
    /\ result.kind = "RelyTaskIllegal"
    /\ can_continue

====
